---- MODULE Spec2Model ----
(***************************************************************************)
(* State-machine model of MemoraVerse: the Root component (mobile gate,    *)
(* motion-sensor permission), the App component (WebXR support query,      *)
(* portal placement and entry) and the memory world (procedural layout,    *)
(* per-frame orb activation).                                              *)
(*                                                                         *)
(* Conventions.  A React state update followed by the re-render and the    *)
(* effects it triggers is one step: every action below contains the        *)
(* handler together with the render it schedules.  Lengths are integers in *)
(* units of 1/Scale, so that every coordinate the code can produce from a  *)
(* Math.random() value k/RandLevels is an integer and a comparison         *)
(* `distance < d` is the exact comparison of squared lengths.              *)
(***************************************************************************)
EXTENDS Integers, Sequences, FiniteSets

VARIABLES
    userAgent,          \* navigator.userAgent (lower-cased token), fixed per session
    hasPermissionApi,   \* DeviceOrientationEvent.requestPermission is a function
    hasXR,              \* 'xr' in navigator
    rootEffectRan,      \* Root's mount effect has run
    isMobile,           \* Root state
    permissionGranted,  \* Root state
    permissionState,    \* DeviceOrientationPermission state
    pendingRequests,    \* requestPermission() calls awaiting the platform's answer
    arSupported,        \* App state: "null" | "true" | "false"
    arQuery,            \* isSessionSupported promise: "none" | "pending" | "resolved" | "rejected"
    portalEntered,      \* App state
    xrSession,          \* an immersive-ar session is running
    portalPlaced,       \* ARExperience state
    portalPosition,     \* ARExperience state
    hitPoint,           \* PortalPlacer state, <<>> is null
    camera,             \* camera.position
    rng,                \* hidden state of Math.random
    treePositions,      \* Vegetation useMemo cache, <<>> before the first render
    bushPositions,      \* Vegetation useMemo cache
    birdPositions,      \* Birds useMemo cache
    orbPositions,       \* MemoryOrbs useMemo cache
    activeOrb,          \* MemoryOrbs state, NULL or an index 0..NumOrbs-1
    lastOp              \* the handler or callback that ran last

env    == <<userAgent, hasPermissionApi, hasXR>>
root   == <<rootEffectRan, isMobile, permissionGranted, permissionState, pendingRequests>>
app    == <<arSupported, arQuery, portalEntered>>
portal == <<portalPlaced, portalPosition, hitPoint>>
layout == <<treePositions, bushPositions, birdPositions, orbPositions>>
world  == <<rng, treePositions, bushPositions, birdPositions, orbPositions, activeOrb>>
vars   == <<userAgent, hasPermissionApi, hasXR, rootEffectRan, isMobile,
           permissionGranted, permissionState, pendingRequests, arSupported,
           arQuery, portalEntered, xrSession, portalPlaced, portalPosition,
           hitPoint, camera, rng, treePositions, bushPositions, birdPositions,
           orbPositions, activeOrb, lastOp>>

----------------------------------------------------------------------------
(* Bounds *)

MaxSeed == 3        \* Math.random starts in one of the states 0..MaxSeed
RandLevels == 4     \* Math.random returns one of k/RandLevels, k in 0..RandLevels-1
MaxPending == 1     \* permission requests in flight at the same time

(* Program constants *)

NumTrees == 20
NumBushes == 30
numBirds == 12
NumOrbs == 7

NULL == -1
Scale == 2 * RandLevels

Vec(x, y, z) == <<x * Scale, y * Scale, z * Scale>>

----------------------------------------------------------------------------
(* Math.random: a generator with hidden state s in 0..15; a call returns    *)
(* the level of the current state and advances it to (s + 7) % 16.         *)

RandLevel(s) == (s * RandLevels) \div 16

\* the state after n calls
Advance(s, n) == (s + 7 * n) % 16

\* the level returned by the n-th call (n = 0, 1, ...) made from state s
Draw(s, n) == RandLevel(Advance(s, n))

\* (Math.random() - 0.5) * extent, in units of 1/Scale
Spread(k, extent) == (2 * k - RandLevels) * extent

\* base + Math.random() * range, in units of 1/Scale
Lift(k, base, range) == base * Scale + 2 * k * range

TreePositionsFrom(s) ==
    [i \in 1..NumTrees |->
        <<Spread(Draw(s, 2 * (i - 1)), 40), 0, Spread(Draw(s, 2 * (i - 1) + 1), 40)>>]

\* y is -0.5
BushPositionsFrom(s) ==
    [i \in 1..NumBushes |->
        <<Spread(Draw(s, 2 * (i - 1)), 30), -RandLevels, Spread(Draw(s, 2 * (i - 1) + 1), 30)>>]

OrbPositionsFrom(s) ==
    [i \in 1..NumOrbs |->
        <<Spread(Draw(s, 3 * (i - 1)), 30),
          Lift(Draw(s, 3 * (i - 1) + 1), 1, 3),
          Spread(Draw(s, 3 * (i - 1) + 2), 30)>>]

BirdPositionsFrom(s) ==
    [i \in 1..numBirds |->
        <<Spread(Draw(s, 3 * (i - 1)), 50),
          Lift(Draw(s, 3 * (i - 1) + 1), 5, 10),
          Spread(Draw(s, 3 * (i - 1) + 2), 50)>>]

\* useMemo without its dependency list: the factory runs on every render
UseMemoNoDeps(cached, fresh) == fresh

\* useMemo(factory, []): the factory's value on the first render, the cached
\* value on every later one
UseMemo(cached, fresh) == IF cached = <<>> THEN fresh ELSE cached

----------------------------------------------------------------------------
(* Geometry *)

Sq(n) == n * n

\* squared Vector3.distanceTo, in units of 1/Scale^2
DistSq(a, b) == Sq(a[1] - b[1]) + Sq(a[2] - b[2]) + Sq(a[3] - b[3])

\* distanceTo(a, b) < d
Within(a, b, d) == DistSq(a, b) < Sq(d * Scale)

DefaultCamera == Vec(0, 0, 5)
DefaultPortalPosition == Vec(0, 0, -5)

\* poses a hit test can report
HitPoints == {Vec(0, 0, -5), Vec(2, 0, -3)}

\* places the viewer can be: where the session starts, at a portal, and on
\* the columns where the layout puts orbs
OrbCoords == {Spread(k, 30) : k \in 0..(RandLevels - 1)}
CameraPositions ==
    {DefaultCamera} \cup HitPoints \cup {<<x, 0, z>> : x \in OrbCoords, z \in OrbCoords}

----------------------------------------------------------------------------
(* Root *)

MobileTokens ==
    {"android", "webos", "iphone", "ipad", "ipod", "blackberry", "iemobile", "opera mini"}

UserAgents == {"iphone", "android", "windows nt"}

checkMobile(ua) == ua \in MobileTokens

\* Root without the isMobile gate
ScreenNoGate == IF ~permissionGranted THEN "permission" ELSE "app"

\* what Root renders
Screen ==
    IF ~isMobile THEN "desktop-warning"
    ELSE IF ~permissionGranted THEN "permission"
    ELSE "app"

----------------------------------------------------------------------------
Init ==
    /\ userAgent \in UserAgents
    /\ hasPermissionApi \in BOOLEAN
    /\ hasXR \in BOOLEAN
    /\ rootEffectRan = FALSE
    /\ isMobile = FALSE
    /\ permissionGranted = FALSE
    /\ permissionState = "unknown"
    /\ pendingRequests = 0
    /\ arSupported = "null"
    /\ arQuery = "none"
    /\ portalEntered = FALSE
    /\ xrSession = FALSE
    /\ portalPlaced = FALSE
    /\ portalPosition = DefaultPortalPosition
    /\ hitPoint = <<>>
    /\ camera = DefaultCamera
    /\ rng \in 0..MaxSeed
    /\ treePositions = <<>>
    /\ bushPositions = <<>>
    /\ birdPositions = <<>>
    /\ orbPositions = <<>>
    /\ activeOrb = NULL
    /\ lastOp = "init"

\* Root's mount effect: setIsMobile(checkMobile())
RootEffect ==
    /\ ~rootEffectRan
    /\ rootEffectRan' = TRUE
    /\ isMobile' = checkMobile(userAgent)
    /\ lastOp' = "RootEffect"
    /\ UNCHANGED <<env, permissionGranted, permissionState, pendingRequests, app,
                   xrSession, portal, camera, world>>

\* App's mount effect: the WebXR support query
AppEffect ==
    IF hasXR
    THEN arQuery' = "pending" /\ arSupported' = "null"
    ELSE arQuery' = "none" /\ arSupported' = "false"

\* onPermissionGranted: setPermissionGranted(true); Root then renders App,
\* whose mount effect runs
onPermissionGranted ==
    /\ permissionGranted' = TRUE
    /\ IF ~permissionGranted THEN AppEffect ELSE UNCHANGED <<arSupported, arQuery>>

\* setPermissionState of DeviceOrientationPermission: no effect once the
\* component is unmounted
setPermissionState(value) ==
    permissionState' = IF permissionGranted THEN permissionState ELSE value

\* click on "Enable AR Experience" or "Try Again": requestPermission up to
\* the await, or to its end where the platform has no permission API
RequestPermission ==
    /\ Screen = "permission"
    /\ permissionState \in {"unknown", "denied"}
    /\ IF hasPermissionApi
       THEN /\ pendingRequests < MaxPending
            /\ pendingRequests' = pendingRequests + 1
            /\ UNCHANGED <<permissionState, permissionGranted, arSupported, arQuery>>
       ELSE /\ setPermissionState("granted")
            /\ onPermissionGranted
            /\ UNCHANGED pendingRequests
    /\ lastOp' = "RequestPermission"
    /\ UNCHANGED <<env, rootEffectRan, isMobile, portalEntered, xrSession, portal,
                   camera, world>>

\* requestPermission whose catch block also calls onPermissionGranted
PermissionSettlesForced(outcome) ==
    /\ pendingRequests > 0
    /\ pendingRequests' = pendingRequests - 1
    /\ CASE outcome = "granted" -> setPermissionState("granted") /\ onPermissionGranted
         [] outcome = "denied" ->
                /\ setPermissionState("denied")
                /\ UNCHANGED <<permissionGranted, arSupported, arQuery>>
         [] outcome = "throws" -> setPermissionState("error") /\ onPermissionGranted
    /\ lastOp' = "PermissionSettles"
    /\ UNCHANGED <<env, rootEffectRan, isMobile, portalEntered, xrSession, portal,
                   camera, world>>

\* the rest of requestPermission after the await: the platform answers
\* "granted" or "denied", or the request throws
PermissionSettles(outcome) ==
    /\ pendingRequests > 0
    /\ pendingRequests' = pendingRequests - 1
    /\ CASE outcome = "granted" -> setPermissionState("granted") /\ onPermissionGranted
         [] outcome = "denied" ->
                /\ setPermissionState("denied")
                /\ UNCHANGED <<permissionGranted, arSupported, arQuery>>
         [] outcome = "throws" ->
                /\ setPermissionState("error")
                /\ UNCHANGED <<permissionGranted, arSupported, arQuery>>
    /\ lastOp' = "PermissionSettles"
    /\ UNCHANGED <<env, rootEffectRan, isMobile, portalEntered, xrSession, portal,
                   camera, world>>

\* click on "Continue Anyway"
ContinueAnyway ==
    /\ Screen = "permission"
    /\ permissionState = "error"
    /\ onPermissionGranted
    /\ lastOp' = "ContinueAnyway"
    /\ UNCHANGED <<env, rootEffectRan, isMobile, permissionState, pendingRequests,
                   portalEntered, xrSession, portal, camera, world>>

\* isSessionSupported('immersive-ar') settles: resolves with a boolean, or
\* rejects (no rejection handler is attached)
XRQuerySettles(outcome) ==
    /\ arQuery = "pending"
    /\ IF outcome = "rejects"
       THEN arQuery' = "rejected" /\ UNCHANGED arSupported
       ELSE arQuery' = "resolved" /\ arSupported' = outcome
    /\ lastOp' = "XRQuerySettles"
    /\ UNCHANGED <<env, root, portalEntered, xrSession, portal, camera, world>>

\* the first render of MemoryWorld: Vegetation's two useMemo factories, the
\* treeHeight of each Tree, the bushSize of each Bush, then the factories of
\* MemoryOrbs and of Birds, all drawing from Math.random in render order
MountMemoryWorld ==
    /\ treePositions' = UseMemo(treePositions, TreePositionsFrom(rng))
    /\ bushPositions' = UseMemo(bushPositions, BushPositionsFrom(Advance(rng, 2 * NumTrees)))
    /\ orbPositions' =
          UseMemo(orbPositions,
                  OrbPositionsFrom(Advance(rng, 3 * NumTrees + 3 * NumBushes)))
    /\ birdPositions' =
          UseMemo(birdPositions,
                  BirdPositionsFrom(Advance(rng, 3 * NumTrees + 3 * NumBushes + 3 * NumOrbs)))
    /\ rng' = Advance(rng, 3 * NumTrees + 3 * NumBushes + 3 * NumOrbs + 3 * numBirds)
    /\ activeOrb' = NULL

\* setPortalEntered(!portalEntered)
setPortalEnteredToggle ==
    /\ portalEntered' = ~portalEntered
    /\ IF ~portalEntered THEN MountMemoryWorld ELSE UNCHANGED world

\* setPortalEntered(true) and the render that follows
setPortalEnteredTrue ==
    /\ portalEntered' = TRUE
    /\ IF ~portalEntered THEN MountMemoryWorld ELSE UNCHANGED world

\* click on "Enter Portal (Non-AR Demo)"
EnterPortalNonAR ==
    /\ Screen = "app"
    /\ arSupported = "false"
    /\ setPortalEnteredTrue
    /\ lastOp' = "EnterPortalNonAR"
    /\ UNCHANGED <<env, root, arSupported, arQuery, xrSession, portal, camera>>

\* click on the ARButton: the immersive-ar session starts
EnterAR ==
    /\ Screen = "app"
    /\ arSupported = "true"
    /\ ~portalEntered
    /\ ~xrSession
    /\ xrSession' = TRUE
    /\ lastOp' = "EnterAR"
    /\ UNCHANGED <<env, root, app, portal, camera, world>>

\* the session ends (the user leaves it)
EndAR ==
    /\ xrSession
    /\ xrSession' = FALSE
    /\ lastOp' = "EndAR"
    /\ UNCHANGED <<env, root, app, portal, camera, world>>

\* useXRHitTest callback of PortalPlacer: setHitPoint(position)
HitTest(position) ==
    /\ Screen = "app"
    /\ xrSession
    /\ ~portalPlaced
    /\ hitPoint' = position
    /\ lastOp' = "HitTest"
    /\ UNCHANGED <<env, root, app, xrSession, portalPlaced, portalPosition, camera, world>>

\* click on the placement ring: setPortalPlaced(true), setPortalPosition;
\* PortalPlacer unmounts and its state is dropped
PlacePortal ==
    /\ Screen = "app"
    /\ ~portalPlaced
    /\ hitPoint # <<>>
    /\ portalPlaced' = TRUE
    /\ portalPosition' = hitPoint
    /\ hitPoint' = <<>>
    /\ lastOp' = "PlacePortal"
    /\ UNCHANGED <<env, root, app, xrSession, camera, world>>

\* the viewer moves: the device pose in a session, OrbitControls before the
\* portal is entered
MoveCamera(position) ==
    /\ Screen = "app"
    /\ xrSession \/ ~portalEntered
    /\ position # camera
    /\ camera' = position
    /\ lastOp' = "MoveCamera"
    /\ UNCHANGED <<env, root, app, xrSession, portal, world>>

\* Portal's callback without the distance test
PortalFrameNoDistance ==
    /\ Screen = "app"
    /\ portalPlaced /\ ~portalEntered
    /\ setPortalEnteredTrue
    /\ lastOp' = "PortalFrame"
    /\ UNCHANGED <<env, root, arSupported, arQuery, xrSession, portal, camera>>

\* useFrame callback of Portal
PortalFrame ==
    /\ Screen = "app"
    /\ portalPlaced /\ ~portalEntered
    /\ IF Within(camera, portalPosition, 1)
       THEN setPortalEnteredTrue
       ELSE UNCHANGED <<portalEntered, world>>
    /\ lastOp' = "PortalFrame"
    /\ UNCHANGED <<env, root, arSupported, arQuery, xrSession, portal, camera>>

\* the forEach body without its else-if branch
RECURSIVE OrbsForEachNoClear(_, _, _, _, _)
OrbsForEachNoClear(positions, cam, captured, index, result) ==
    IF index >= Len(positions) THEN result
    ELSE LET near == Within(cam, positions[index + 1], 3)
         IN  OrbsForEachNoClear(positions, cam, captured, index + 1,
                 IF near /\ captured # index THEN index ELSE result)

\* the forEach body with the two distance tests exchanged
RECURSIVE OrbsForEachSwapped(_, _, _, _, _)
OrbsForEachSwapped(positions, cam, captured, index, result) ==
    IF index >= Len(positions) THEN result
    ELSE LET near == Within(cam, positions[index + 1], 3)
         IN  OrbsForEachSwapped(positions, cam, captured, index + 1,
                 IF ~near /\ captured # index THEN index
                 ELSE IF near /\ captured = index THEN NULL
                 ELSE result)

\* the forEach body of MemoryOrbs' useFrame callback for the orbs from
\* `index` on: `captured` is the activeOrb of the render that created the
\* callback, `result` the argument of the latest setActiveOrb call
RECURSIVE OrbsForEach(_, _, _, _, _)
OrbsForEach(positions, cam, captured, index, result) ==
    IF index >= Len(positions) THEN result
    ELSE LET near == Within(cam, positions[index + 1], 3)
         IN  OrbsForEach(positions, cam, captured, index + 1,
                 IF near /\ captured # index THEN index
                 ELSE IF ~near /\ captured = index THEN NULL
                 ELSE result)

\* activeOrb after one frame of MemoryOrbs
OrbsFrame(positions, cam, active) == OrbsForEach(positions, cam, active, 0, active)

\* useFrame callback of MemoryOrbs, and the re-render of MemoryOrbs when the
\* state changed
MemoryOrbsFrame ==
    /\ Screen = "app"
    /\ portalEntered
    /\ activeOrb' = OrbsFrame(orbPositions, camera, activeOrb)
    /\ orbPositions' =
          IF activeOrb' # activeOrb
          THEN UseMemo(orbPositions, OrbPositionsFrom(rng))
          ELSE orbPositions
    /\ lastOp' = "MemoryOrbsFrame"
    /\ UNCHANGED <<env, root, app, xrSession, portal, camera, rng,
                   treePositions, bushPositions, birdPositions>>

Next ==
    \/ RootEffect
    \/ RequestPermission
    \/ \E outcome \in {"granted", "denied", "throws"} : PermissionSettles(outcome)
    \/ ContinueAnyway
    \/ \E outcome \in {"true", "false", "rejects"} : XRQuerySettles(outcome)
    \/ EnterPortalNonAR
    \/ EnterAR
    \/ EndAR
    \/ \E position \in HitPoints : HitTest(position)
    \/ PlacePortal
    \/ \E position \in CameraPositions : MoveCamera(position)
    \/ PortalFrame
    \/ MemoryOrbsFrame

Spec == Init /\ [][Next]_vars

----------------------------------------------------------------------------
(* Properties *)

OrbIndices == 0..(NumOrbs - 1)

\* the orbs at distance < 3 of the viewer
OrbsInRange == {i \in OrbIndices : orbPositions # <<>> /\ Within(camera, orbPositions[i + 1], 3)}

\* orb i is at least as near to the viewer as every other orb
IsNearest(i) ==
    /\ i \in OrbIndices
    /\ \A j \in OrbIndices :
          DistSq(camera, orbPositions[i + 1]) <= DistSq(camera, orbPositions[j + 1])

\* the session mode as a rank: permission-pending (or the device gate),
\* portal-unplaced, portal-placed, world-entered
ModeRank ==
    IF Screen # "app" THEN 0
    ELSE IF portalEntered THEN 3
    ELSE IF portalPlaced THEN 2
    ELSE 1

\* C1: when a MemoryOrbs frame runs with two or more orbs within distance 3
\* of the viewer, the active orb after the frame is the nearest one.
C1_NearestWins ==
    [][(lastOp' = "MemoryOrbsFrame" /\ Cardinality(OrbsInRange) >= 2)
          => IsNearest(activeOrb')]_vars

\* C2: the session mode never steps backward, and none of permissionGranted,
\* portalPlaced and portalEntered ever reverts to false.
C2_Monotonic ==
    [][/\ ModeRank' >= ModeRank
       /\ permissionGranted => permissionGranted'
       /\ portalPlaced => portalPlaced'
       /\ portalEntered => portalEntered']_vars

C2_Witness ==
    /\ portalEntered /\ portalPlaced /\ permissionGranted
    /\ lastOp = "PortalFrame"

\* C3 (as claimed): portalEntered becomes true only in a state where the
\* portal has been placed.
C3_OnlyFromPlaced == [][(~portalEntered /\ portalEntered') => portalPlaced]_vars

\* C3 (amended): portalEntered becomes true either in Portal's frame callback,
\* with the portal placed and the viewer within distance 1 of it, or by the
\* click on the non-AR demo button while arSupported is false, whether or not
\* the portal has been placed.
C3_EnteredByFrameOrDemoClick ==
    [][(~portalEntered /\ portalEntered') =>
          \/ /\ lastOp' = "PortalFrame"
             /\ portalPlaced
             /\ Within(camera, portalPosition, 1)
          \/ /\ lastOp' = "EnterPortalNonAR"
             /\ arSupported = "false"]_vars

C3_Witness == portalEntered /\ ~portalPlaced /\ lastOp = "EnterPortalNonAR"

\* C4: on a device reported as non-mobile the desktop warning (QR screen) is
\* shown in every reachable state; no permission request is made, the
\* permission state stays unknown, and the App is never mounted (no WebXR
\* query, no session, no portal entry).
C4_NonMobileStaysOnFallback ==
    ~checkMobile(userAgent) =>
        /\ Screen = "desktop-warning"
        /\ pendingRequests = 0
        /\ permissionState = "unknown"
        /\ ~permissionGranted
        /\ arQuery = "none" /\ arSupported = "null"
        /\ ~xrSession /\ ~portalPlaced /\ ~portalEntered
        /\ lastOp \in {"init", "RootEffect"}

C4_Witness == ~checkMobile(userAgent) /\ rootEffectRan /\ Screen = "desktop-warning"

\* C5 (as claimed): once the permission request has thrown, the session is in
\* portal-unplaced with the App shown.
C5_ThrowShowsApp == permissionState = "error" => Screen = "app"

\* C5 (amended): when the permission request throws, permissionState becomes
\* "error" and the session stays in permission-pending; from there the
\* "Continue Anyway" click is available, and the App is shown only after that
\* click (or after another request in flight is granted).
C5_ThrowOffersContinue ==
    /\ []((permissionState = "error" /\ Screen = "permission") => ENABLED ContinueAnyway)
    /\ [][/\ (permissionState # "error" /\ permissionState' = "error")
               => (Screen' = "permission" /\ lastOp' = "PermissionSettles")
          /\ (permissionState = "error" /\ Screen = "permission" /\ Screen' = "app")
               => lastOp' \in {"ContinueAnyway", "PermissionSettles"}]_vars

C5_Witness == permissionState = "error" /\ Screen = "app" /\ lastOp = "ContinueAnyway"

\* C6: the layout is empty until the world is entered, holds 20 trees, 30
\* bushes, 12 birds and 7 orbs from then on, and no step taken after the
\* world is entered changes it.
C6_LayoutGeneratedOnce ==
    /\ [](IF portalEntered
          THEN /\ Len(treePositions) = 20 /\ Len(bushPositions) = 30
               /\ Len(birdPositions) = 12 /\ Len(orbPositions) = 7
          ELSE layout = <<<<>>, <<>>, <<>>, <<>>>>)
    /\ [][portalEntered => layout' = layout]_vars

C6_Witness == portalEntered /\ lastOp = "MemoryOrbsFrame" /\ activeOrb # NULL

C8_AllFarClears ==
    [][(lastOp' = "MemoryOrbsFrame" /\ OrbsInRange = {}) => activeOrb' = NULL]_vars

C8_Witness ==
    /\ lastOp = "MemoryOrbsFrame" /\ OrbsInRange = {} /\ activeOrb = NULL
    /\ camera # DefaultCamera

\* C9: of two MemoryOrbs frames with no viewer movement between them, the
\* second leaves activeOrb unchanged.
C9_SettlesAfterOneFrame ==
    [][(lastOp = "MemoryOrbsFrame" /\ lastOp' = "MemoryOrbsFrame")
          => activeOrb' = activeOrb]_vars

\* C10: once the WebXR support query has settled, or the xr API is absent,
\* arSupported is not null.
C10_SettledQueryIsKnown ==
    (Screen = "app" /\ arQuery # "pending") => arSupported # "null"

====
